---- MODULE Spec2Model ----
(***************************************************************************)
(* Analytics service (apps/backend/analytics-service/src/main.rs): an      *)
(* in-memory Vec<AnalyticsEvent> behind Arc<tokio::sync::RwLock<..>>,      *)
(* served by five axum handlers.  Every request is a task (a process of    *)
(* the model); a handler is cut into steps at the .await of the lock and   *)
(* at the statements that read or write the shared vector.                 *)
(***************************************************************************)
EXTENDS Integers, Sequences, FiniteSets, TLC

\* ------------------------------------------------------------------ bounds
MaxEvents == 2          \* creates accepted in a run of Spec
StatsFill == 9          \* events already stored when a run of SpecStats starts
StatsExtra == 2         \* creates accepted in a run of SpecStats

\* ------------------------------------------------------- program constants
RecentLimit == 10       \* recent_events.truncate(10)

\* The request tasks that run side by side.
Procs == {1, 2}

\* ------------------------------------------------------------ data model
None == <<>>                                  \* Option::None
Some(x) == <<x>>                              \* Option::Some(x)
NoProps == {}                                 \* an empty properties map
SomeProps == {<<"x", 1>>}                     \* the map {"x": 1}

\* struct AnalyticsEvent
AnalyticsEvent(id, event_type, user_id, properties, timestamp) ==
    [id |-> id, event_type |-> event_type, user_id |-> user_id,
     properties |-> properties, timestamp |-> timestamp]

NoEvent == AnalyticsEvent(0, "", None, NoProps, 0)

\* JSON bodies a client can post: no bytes at all, or an object holding some
\* of the three fields.
EmptyBody == [kind |-> "empty"]
JsonObject(fields) == [kind |-> "object", fields |-> fields]
FullBody == JsonObject([event_type |-> "click", user_id |-> "u1", properties |-> SomeProps])
NoUserBody == JsonObject([event_type |-> "view", properties |-> NoProps])
NoPropertiesBody == JsonObject([event_type |-> "view", user_id |-> "u1"])
NoTypeBody == JsonObject([user_id |-> "u1", properties |-> SomeProps])
Bodies == {EmptyBody, FullBody, NoUserBody, NoPropertiesBody, NoTypeBody}

\* POST /events requests: each body sent as application/json, and one sent
\* without a JSON content type.
CreateRequests ==
    { [json_content_type |-> TRUE, body |-> b] : b \in Bodies }
    \cup { [json_content_type |-> FALSE, body |-> EmptyBody] }

\* What the client sends as the {id} segment of GET /events/{id}: the text
\* of a UUID, or something that is none.
PathSegments(ids) ==
    { [well_formed |-> TRUE, uuid |-> u] : u \in ids }
    \cup { [well_formed |-> FALSE, uuid |-> 0] }

\* struct EventStats
EventStats(total_events, events_by_type, recent_events) ==
    [total_events |-> total_events, events_by_type |-> events_by_type,
     recent_events |-> recent_events]
EmptyMap == [k \in {} |-> 0]                  \* HashMap::new()
NoStats == EventStats(0, EmptyMap, <<>>)

\* An HTTP response: the status and the JSON of whichever handler answered.
Response(status, event, list, stats) ==
    [status |-> status, event |-> event, list |-> list, stats |-> stats]
NoResponse == Response(0, NoEvent, <<>>, NoStats)
Rejection(status) == Response(status, NoEvent, <<>>, NoStats)

\* --------------------------------------------------------------- state
VARIABLES
    events,     \* the Vec<AnalyticsEvent> inside the RwLock
    writer,     \* the tasks holding the write guard
    readers,    \* the tasks holding a read guard
    now,        \* the last reading of chrono::Utc::now()
    uuids,      \* how many values Uuid::new_v4() has handed out
    pc,         \* where each task is in its handler
    req,        \* the request each task serves
    loc,        \* the handler's local variables
    resp,       \* the response of a finished handler
    hist,       \* per call: what was true when the call started, and since
    returned,   \* the events that clients have been given by create
    completed,  \* the number of creates whose response has reached the client
    listed,     \* the length of the longest list a client has been given
    acquired    \* the ids of the creates, in the order they took the write guard

store == <<events, writer, readers>>
env == <<now, uuids>>
tasks == <<pc, req, loc, resp>>
ghost == <<hist, returned, completed, listed, acquired>>
vars == <<events, writer, readers, now, uuids, pc, req, loc, resp,
          hist, returned, completed, listed, acquired>>

NoRequest == [op |-> "none"]
NoLocals == [event |-> NoEvent, pos |-> 0,
             total_events |-> 0, events_by_type |-> EmptyMap]
NoHist == [seen |-> {}, known |-> {}, floor |-> 0]

\* What a call remembers of the moment it starts.  list and stats: the store
\* content.  get: the events with the requested id that create has returned.
\* list: the larger of the number of creates completed and the length of the
\* longest list returned.
CallStart(r) ==
    [seen |-> IF r.op \in {"list", "stats"} THEN {events} ELSE {},
     known |-> IF r.op = "get" /\ r.path.well_formed
               THEN {e \in returned : e.id = r.path.uuid} ELSE {},
     floor |-> IF r.op = "list"
               THEN (IF completed > listed THEN completed ELSE listed) ELSE 0]

\* Every running call has now also seen the store content s.
Seeing(s) == [q \in Procs |->
                IF req[q].op \notin {"list", "stats"} \/ pc[q] = "done" THEN hist[q]
                ELSE [hist[q] EXCEPT !.seen = @ \cup {s}]]

\* ---------------------------------------------------- tokio::sync::RwLock
\* state.write().await resumes once nobody holds a guard; state.read().await
\* once no writer holds one.  (tokio also keeps a reader waiting behind a
\* queued writer; that only removes behaviours.)
\* A lock whose writers do not wait for readers, and one whose readers do
\* not wait for the writer.
WriteLockIgnoresReaders(w, r) == w = {}
ReadLockIgnoresWriter(w, r) == TRUE
\* A lock whose writers do not wait for each other.
WriteLockShared(w, r) == r = {}
WriteLockFree(w, r) == w = {} /\ r = {}
ReadLockFree(w, r) == w = {}

\* ----------------------------------------------------------- extractors
\* Json<CreateEventRequest>: axum answers 415 without a JSON content type,
\* 400 when the bytes are not JSON (no bytes included), 422 when the JSON
\* does not deserialize: event_type: String and properties: HashMap have no
\* default, user_id: Option<String> is None when absent or null.
Accept(payload) == [ok |-> TRUE, status |-> 200, payload |-> payload]
Reject(status) == [ok |-> FALSE, status |-> status,
                   payload |-> [event_type |-> "", user_id |-> None, properties |-> NoProps]]
\* A request struct whose properties has a serde default.
JsonExtractDefaultProperties(r) ==
    IF ~r.json_content_type THEN Reject(415)
    ELSE IF r.body.kind = "empty" THEN Reject(400)
    ELSE LET f == r.body.fields IN
         IF "event_type" \notin DOMAIN f
         THEN Reject(422)
         ELSE Accept([event_type |-> f.event_type,
                      user_id |-> IF "user_id" \in DOMAIN f
                                  THEN Some(f.user_id) ELSE None,
                      properties |-> IF "properties" \in DOMAIN f
                                     THEN f.properties ELSE NoProps])
\* A request struct whose event_type has a serde default.
JsonExtractDefaultType(r) ==
    IF ~r.json_content_type THEN Reject(415)
    ELSE IF r.body.kind = "empty" THEN Reject(400)
    ELSE LET f == r.body.fields IN
         IF "properties" \notin DOMAIN f
         THEN Reject(422)
         ELSE Accept([event_type |-> IF "event_type" \in DOMAIN f
                                     THEN f.event_type ELSE "",
                      user_id |-> IF "user_id" \in DOMAIN f
                                  THEN Some(f.user_id) ELSE None,
                      properties |-> f.properties])
JsonExtract(r) ==
    IF ~r.json_content_type THEN Reject(415)
    ELSE IF r.body.kind = "empty" THEN Reject(400)
    ELSE LET f == r.body.fields IN
         IF "event_type" \notin DOMAIN f \/ "properties" \notin DOMAIN f
         THEN Reject(422)
         ELSE Accept([event_type |-> f.event_type,
                      user_id |-> IF "user_id" \in DOMAIN f
                                  THEN Some(f.user_id) ELSE None,
                      properties |-> f.properties])

\* A path extractor whose rejection is mapped to 404.
PathExtractNotFound(seg) ==
    IF seg.well_formed THEN [ok |-> TRUE, status |-> 200, id |-> seg.uuid]
    ELSE [ok |-> FALSE, status |-> 404, id |-> 0]

\* Path<Uuid>: axum answers 400 when the segment does not parse as a UUID.
PathExtract(seg) ==
    IF seg.well_formed THEN [ok |-> TRUE, status |-> 200, id |-> seg.uuid]
    ELSE [ok |-> FALSE, status |-> 400, id |-> 0]

\* Uuid::new_v4(): 122 random bits.  The draw is taken to be a value never
\* handed out before (the n-th draw is written n).
NewV4(n) == n + 1

\* chrono::Utc::now(): the clock does not run backwards; a reading is the
\* last reading or a later one.
UtcNow(last) == {last, last + 1}

\* ----------------------------------------------------------- create_event
\* Lines 81-91: the extractor, then the event is built from the payload, a
\* new id and the clock.
CreateRequest(p, r, cap) ==
    /\ pc[p] = "idle"
    /\ req' = [req EXCEPT ![p] = [op |-> "create", create |-> r]]
    /\ hist' = [hist EXCEPT ![p] = CallStart([op |-> "create", create |-> r])]
    /\ LET x == JsonExtract(r) IN
       IF x.ok
       THEN /\ uuids < cap
            /\ uuids' = NewV4(uuids)
            /\ now' \in UtcNow(now)
            /\ loc' = [loc EXCEPT ![p].event =
                          AnalyticsEvent(NewV4(uuids), x.payload.event_type,
                                         x.payload.user_id, x.payload.properties, now')]
            /\ pc' = [pc EXCEPT ![p] = "c_lock"]
            /\ UNCHANGED resp
       ELSE /\ resp' = [resp EXCEPT ![p] = Rejection(x.status)]
            /\ pc' = [pc EXCEPT ![p] = "done"]
            /\ UNCHANGED <<uuids, now, loc>>
    /\ UNCHANGED <<store, returned, completed, listed, acquired>>

\* Line 93: let mut events = state.write().await
CreateLock(p) ==
    /\ pc[p] = "c_lock"
    /\ WriteLockFree(writer, readers)
    /\ writer' = writer \cup {p}
    /\ acquired' = Append(acquired, loc[p].event.id)
    /\ pc' = [pc EXCEPT ![p] = "c_push"]
    /\ UNCHANGED <<events, readers, env, req, loc, resp, hist, returned, completed, listed>>

\* A create that puts its event in front of the others.
CreatePushFront(p) ==
    /\ pc[p] = "c_push"
    /\ events' = <<loc[p].event>> \o events
    /\ hist' = Seeing(events')
    /\ pc' = [pc EXCEPT ![p] = "c_ret"]
    /\ UNCHANGED <<writer, readers, env, req, loc, resp, returned, completed, listed, acquired>>

\* A create that appends its event twice.
CreatePushTwice(p) ==
    /\ pc[p] = "c_push"
    /\ events' = Append(Append(events, loc[p].event), loc[p].event)
    /\ hist' = Seeing(events')
    /\ pc' = [pc EXCEPT ![p] = "c_ret"]
    /\ UNCHANGED <<writer, readers, env, req, loc, resp, returned, completed, listed, acquired>>

\* Line 94: events.push(event.clone())
CreatePush(p) ==
    /\ pc[p] = "c_push"
    /\ events' = Append(events, loc[p].event)
    /\ hist' = Seeing(events')
    /\ pc' = [pc EXCEPT ![p] = "c_ret"]
    /\ UNCHANGED <<writer, readers, env, req, loc, resp, returned, completed, listed, acquired>>

\* A create that answers with an event stamped anew.
CreateReturnRestamps(p) ==
    /\ pc[p] = "c_ret"
    /\ resp' = [resp EXCEPT ![p] =
                  Response(200, [loc[p].event EXCEPT !.timestamp = @ + 1], <<>>, NoStats)]
    /\ writer' = writer \ {p}
    /\ pc' = [pc EXCEPT ![p] = "done"]
    /\ UNCHANGED <<events, readers, env, req, loc, ghost>>

\* Lines 96-98: Ok(Json(event)); the write guard is dropped on return.
CreateReturn(p) ==
    /\ pc[p] = "c_ret"
    /\ resp' = [resp EXCEPT ![p] = Response(200, loc[p].event, <<>>, NoStats)]
    /\ writer' = writer \ {p}
    /\ pc' = [pc EXCEPT ![p] = "done"]
    /\ UNCHANGED <<events, readers, env, req, loc, ghost>>

\* ------------------------------------------------------------- get_events
ListRequest(p) ==
    /\ pc[p] = "idle"
    /\ req' = [req EXCEPT ![p] = [op |-> "list"]]
    /\ hist' = [hist EXCEPT ![p] = CallStart([op |-> "list"])]
    /\ pc' = [pc EXCEPT ![p] = "l_lock"]
    /\ UNCHANGED <<store, env, loc, resp, returned, completed, listed, acquired>>

\* Line 101: let events = state.read().await
ListLock(p) ==
    /\ pc[p] = "l_lock"
    /\ ReadLockFree(writer, readers)
    /\ readers' = readers \cup {p}
    /\ pc' = [pc EXCEPT ![p] = "l_clone"]
    /\ UNCHANGED <<events, writer, env, req, loc, resp, ghost>>

\* A list that leaves out the newest event.
ListReturnDropsLast(p) ==
    /\ pc[p] = "l_clone"
    /\ resp' = [resp EXCEPT ![p] =
                  Response(200, NoEvent,
                           IF events = <<>> THEN events
                           ELSE SubSeq(events, 1, Len(events) - 1), NoStats)]
    /\ readers' = readers \ {p}
    /\ pc' = [pc EXCEPT ![p] = "done"]
    /\ UNCHANGED <<events, writer, env, req, loc, ghost>>

\* Lines 102-103: Json(events.clone()); the read guard is dropped on return.
ListReturn(p) ==
    /\ pc[p] = "l_clone"
    /\ resp' = [resp EXCEPT ![p] = Response(200, NoEvent, events, NoStats)]
    /\ readers' = readers \ {p}
    /\ pc' = [pc EXCEPT ![p] = "done"]
    /\ UNCHANGED <<events, writer, env, req, loc, ghost>>

\* -------------------------------------------------------------- get_event
\* events.iter().find(|e| e.id == id): the first match, if any.
Matches(s, id) == { i \in 1..Len(s) : s[i].id = id }
\* A search whose closure accepts every event.
FindFirstEvent(s, id) == IF s = <<>> THEN None ELSE Some(s[1])
Find(s, id) ==
    IF Matches(s, id) = {} THEN None
    ELSE Some(s[CHOOSE i \in Matches(s, id) : \A j \in Matches(s, id) : i <= j])

\* Lines 105-108: the Path<Uuid> extractor.
GetRequest(p, seg) ==
    /\ pc[p] = "idle"
    /\ req' = [req EXCEPT ![p] = [op |-> "get", path |-> seg]]
    /\ hist' = [hist EXCEPT ![p] = CallStart([op |-> "get", path |-> seg])]
    /\ LET x == PathExtract(seg) IN
       IF x.ok
       THEN /\ pc' = [pc EXCEPT ![p] = "g_lock"]
            /\ UNCHANGED resp
       ELSE /\ resp' = [resp EXCEPT ![p] = Rejection(x.status)]
            /\ pc' = [pc EXCEPT ![p] = "done"]
    /\ UNCHANGED <<store, env, loc, returned, completed, listed, acquired>>

\* Line 109: let events = state.read().await
GetLock(p) ==
    /\ pc[p] = "g_lock"
    /\ ReadLockFree(writer, readers)
    /\ readers' = readers \cup {p}
    /\ pc' = [pc EXCEPT ![p] = "g_find"]
    /\ UNCHANGED <<events, writer, env, req, loc, resp, ghost>>

\* A get that keeps its read guard when it finds nothing.
GetReturnKeepsGuard(p) ==
    /\ pc[p] = "g_find"
    /\ LET found == Find(events, PathExtract(req[p].path).id) IN
       /\ resp' = [resp EXCEPT ![p] =
                     IF found # None THEN Response(200, found[1], <<>>, NoStats)
                     ELSE Rejection(404)]
       /\ readers' = IF found # None THEN readers \ {p} ELSE readers
    /\ pc' = [pc EXCEPT ![p] = "done"]
    /\ UNCHANGED <<events, writer, env, req, loc, ghost>>

\* Lines 111-116: the search and the answer; the read guard is dropped.
GetReturn(p) ==
    /\ pc[p] = "g_find"
    /\ LET found == Find(events, PathExtract(req[p].path).id) IN
       resp' = [resp EXCEPT ![p] =
                   IF found # None THEN Response(200, found[1], <<>>, NoStats)
                   ELSE Rejection(404)]
    /\ readers' = readers \ {p}
    /\ pc' = [pc EXCEPT ![p] = "done"]
    /\ UNCHANGED <<events, writer, env, req, loc, ghost>>

\* -------------------------------------------------------------- get_stats
\* A count that is set to one instead of incremented.
InsertOne(m, k) == [x \in DOMAIN m \cup {k} |-> IF x = k THEN 1 ELSE m[x]]

\* *events_by_type.entry(k).or_insert(0) += 1
Increment(m, k) ==
    [x \in DOMAIN m \cup {k} |-> IF x \in DOMAIN m
                                 THEN (IF x = k THEN m[x] + 1 ELSE m[x])
                                 ELSE 1]

\* A sort that puts e in front of the elements that compare equal to it.
RECURSIVE InsertBeforeEquals(_, _)
InsertBeforeEquals(sorted, e) ==
    IF sorted = <<>> THEN <<e>>
    ELSE IF sorted[Len(sorted)].timestamp > e.timestamp
         THEN Append(sorted, e)
         ELSE Append(InsertBeforeEquals(SubSeq(sorted, 1, Len(sorted) - 1), e),
                     sorted[Len(sorted)])

\* recent_events.sort_by(|a, b| b.timestamp.cmp(&a.timestamp)): a stable
\* sort, later timestamps first.  Insert puts e behind every element that
\* does not compare greater than it, so equal timestamps keep their order.
RECURSIVE Insert(_, _)
Insert(sorted, e) ==
    IF sorted = <<>> THEN <<e>>
    ELSE IF sorted[Len(sorted)].timestamp >= e.timestamp
         THEN Append(sorted, e)
         ELSE Append(Insert(SubSeq(sorted, 1, Len(sorted) - 1), e), sorted[Len(sorted)])
RECURSIVE SortByTimestampDesc(_)
SortByTimestampDesc(s) ==
    IF s = <<>> THEN <<>>
    ELSE Insert(SortByTimestampDesc(SubSeq(s, 1, Len(s) - 1)), s[Len(s)])

\* A truncate that keeps the end of the vector.
KeepLast(s, n) == IF Len(s) > n THEN SubSeq(s, Len(s) - n + 1, Len(s)) ELSE s

\* A truncate that does nothing.
KeepAll(s, n) == s

\* Vec::truncate(n)
Truncate(s, n) == IF Len(s) > n THEN SubSeq(s, 1, n) ELSE s

StatsRequest(p) ==
    /\ pc[p] = "idle"
    /\ req' = [req EXCEPT ![p] = [op |-> "stats"]]
    /\ hist' = [hist EXCEPT ![p] = CallStart([op |-> "stats"])]
    /\ pc' = [pc EXCEPT ![p] = "s_lock"]
    /\ UNCHANGED <<store, env, loc, resp, returned, completed, listed, acquired>>

\* Line 119: let events = state.read().await
StatsLock(p) ==
    /\ pc[p] = "s_lock"
    /\ ReadLockFree(writer, readers)
    /\ readers' = readers \cup {p}
    /\ pc' = [pc EXCEPT ![p] = "s_len"]
    /\ UNCHANGED <<events, writer, env, req, loc, resp, ghost>>

\* A total that counts the event types instead of the events.
StatsLenCountsTypes(p) ==
    /\ pc[p] = "s_len"
    /\ loc' = [loc EXCEPT ![p].total_events =
                  Cardinality({ events[i].event_type : i \in 1..Len(events) })]
    /\ pc' = [pc EXCEPT ![p] = "s_count"]
    /\ UNCHANGED <<store, env, req, resp, ghost>>

\* Lines 121-122: let total_events = events.len()
StatsLen(p) ==
    /\ pc[p] = "s_len"
    /\ loc' = [loc EXCEPT ![p].total_events = Len(events)]
    /\ pc' = [pc EXCEPT ![p] = "s_count"]
    /\ UNCHANGED <<store, env, req, resp, ghost>>

\* Lines 124-126: one turn of the loop over events.iter().
StatsCount(p) ==
    /\ pc[p] = "s_count"
    /\ IF loc[p].pos < Len(events)
       THEN /\ loc' = [loc EXCEPT
                         ![p].events_by_type =
                             Increment(@, events[loc[p].pos + 1].event_type),
                         ![p].pos = @ + 1]
            /\ UNCHANGED pc
       ELSE /\ pc' = [pc EXCEPT ![p] = "s_clone"]
            /\ UNCHANGED loc
    /\ UNCHANGED <<store, env, req, resp, ghost>>

\* A stats that sorts the store itself, not a clone of it.
StatsReturnSortsStore(p) ==
    /\ pc[p] = "s_clone"
    /\ events' = SortByTimestampDesc(events)
    /\ resp' = [resp EXCEPT ![p] =
                  Response(200, NoEvent, <<>>,
                           EventStats(loc[p].total_events, loc[p].events_by_type,
                                      Truncate(events', RecentLimit)))]
    /\ readers' = readers \ {p}
    /\ pc' = [pc EXCEPT ![p] = "done"]
    /\ UNCHANGED <<writer, env, req, loc, ghost>>

\* Lines 128-137: clone, sort, truncate, answer; the read guard is dropped.
StatsReturn(p) ==
    /\ pc[p] = "s_clone"
    /\ resp' = [resp EXCEPT ![p] =
                  Response(200, NoEvent, <<>>,
                           EventStats(loc[p].total_events, loc[p].events_by_type,
                                      Truncate(SortByTimestampDesc(events),
                                               RecentLimit)))]
    /\ readers' = readers \ {p}
    /\ pc' = [pc EXCEPT ![p] = "done"]
    /\ UNCHANGED <<events, writer, env, req, loc, ghost>>

\* ----------------------------------------------------------- health_check
HealthCheck(p) ==
    /\ pc[p] = "idle"
    /\ req' = [req EXCEPT ![p] = [op |-> "health"]]
    /\ hist' = [hist EXCEPT ![p] = CallStart([op |-> "health"])]
    /\ resp' = [resp EXCEPT ![p] = Rejection(200)]
    /\ pc' = [pc EXCEPT ![p] = "done"]
    /\ UNCHANGED <<store, env, loc, returned, completed, listed, acquired>>

\* ------------------------------------------------------------ environment
\* The response reaches the client and the task ends: from here on the
\* client knows the event a create returned, or the list it was given.
Finish(p) ==
    /\ pc[p] = "done"
    /\ pc' = [pc EXCEPT ![p] = "idle"]
    /\ req' = [req EXCEPT ![p] = NoRequest]
    /\ loc' = [loc EXCEPT ![p] = NoLocals]
    /\ resp' = [resp EXCEPT ![p] = NoResponse]
    /\ hist' = [hist EXCEPT ![p] = NoHist]
    /\ IF req[p].op = "create" /\ resp[p].status = 200
       THEN returned' = returned \cup {resp[p].event} /\ completed' = completed + 1
       ELSE UNCHANGED <<returned, completed>>
    /\ IF req[p].op = "list" /\ Len(resp[p].list) > listed
       THEN listed' = Len(resp[p].list)
       ELSE UNCHANGED listed
    /\ UNCHANGED <<store, env, acquired>>

\* ---------------------------------------------------------- specification
Init ==
    /\ events = <<>>
    /\ writer = {}
    /\ readers = {}
    /\ now = 0
    /\ uuids = 0
    /\ pc = [p \in Procs |-> "idle"]
    /\ req = [p \in Procs |-> NoRequest]
    /\ loc = [p \in Procs |-> NoLocals]
    /\ resp = [p \in Procs |-> NoResponse]
    /\ hist = [p \in Procs |-> NoHist]
    /\ returned = {}
    /\ completed = 0
    /\ listed = 0
    /\ acquired = <<>>

\* One step of task p, for the requests the clients of a run send.
Step(p, cap, posts, segments) ==
    \/ \E r \in posts : CreateRequest(p, r, cap)
    \/ CreateLock(p)
    \/ CreatePush(p)
    \/ CreateReturn(p)
    \/ ListRequest(p)
    \/ ListLock(p)
    \/ ListReturn(p)
    \/ \E seg \in segments : GetRequest(p, seg)
    \/ GetLock(p)
    \/ GetReturn(p)
    \/ StatsRequest(p)
    \/ StatsLock(p)
    \/ StatsLen(p)
    \/ StatsCount(p)
    \/ StatsReturn(p)
    \/ HealthCheck(p)
    \/ Finish(p)

\* Concurrent clients on a store that starts empty.
Next == \E p \in Procs : Step(p, MaxEvents, CreateRequests, PathSegments(1..(MaxEvents + 1)))

Spec == Init /\ [][Next]_vars

\* A store that already holds StatsFill events, created by earlier requests
\* whose clock readings were 0 or 1 in any order (concurrent creates append
\* in the order they get the lock, not in the order they read the clock),
\* and one client sending requests one after the other.
Filled(ts) ==
    [i \in 1..StatsFill |->
        AnalyticsEvent(i, IF i % 2 = 1 THEN "click" ELSE "view", None, NoProps, ts[i])]
Latest(s) == IF \E i \in 1..Len(s) : s[i].timestamp = 1 THEN 1 ELSE 0

InitStats ==
    /\ \E ts \in [1..StatsFill -> {0, 1}] : events = Filled(ts)
    /\ writer = {}
    /\ readers = {}
    /\ now = Latest(events)
    /\ uuids = StatsFill
    /\ pc = [p \in Procs |-> "idle"]
    /\ req = [p \in Procs |-> NoRequest]
    /\ loc = [p \in Procs |-> NoLocals]
    /\ resp = [p \in Procs |-> NoResponse]
    /\ hist = [p \in Procs |-> NoHist]
    /\ returned = {events[i] : i \in 1..StatsFill}
    /\ completed = StatsFill
    /\ listed = 0
    /\ acquired = [i \in 1..StatsFill |-> i]

StatsPosts == { [json_content_type |-> TRUE, body |-> b] : b \in {FullBody, EmptyBody} }
StatsSegments == PathSegments({1, StatsFill + StatsExtra + 1})

NextStats == Step(1, StatsFill + StatsExtra, StatsPosts, StatsSegments)

SpecStats == InitStats /\ [][NextStats]_vars

\* The same clients under the scheduling the runtime and the lock give.
\* tokio polls every task that can run, so a handler that holds its guard,
\* or needs none, takes its next step (weak fairness).  tokio's RwLock is
\* fair: waiters are queued first in, first out, so a task waiting at
\* state.write().await or state.read().await gets the guard once the lock
\* has been free often enough (strong fairness).  Clients need not send
\* requests, nor pick up answers.
Handler(p) ==
    \/ CreatePush(p)
    \/ CreateReturn(p)
    \/ ListReturn(p)
    \/ GetReturn(p)
    \/ StatsLen(p)
    \/ StatsCount(p)
    \/ StatsReturn(p)
Acquire(p) == CreateLock(p) \/ ListLock(p) \/ GetLock(p) \/ StatsLock(p)
Fairness == \A p \in Procs : WF_vars(Handler(p)) /\ SF_vars(Acquire(p))
FairPosts == { [json_content_type |-> TRUE, body |-> FullBody],
               [json_content_type |-> FALSE, body |-> EmptyBody] }
FairSegments == PathSegments({1})
NextFair == \E p \in Procs : Step(p, MaxEvents, FairPosts, FairSegments)
SpecFair == Init /\ [][NextFair]_vars /\ Fairness


\* ------------------------------------------------------------------ claims
IsDone(p, op) == pc[p] = "done" /\ req[p].op = op
Created(p) == req[p].op = "create" /\ loc[p].event # NoEvent
Positions(id) == { i \in 1..Len(events) : events[i].id = id }

\* C1: no two events of the store have the same id, no two creates (finished
\* or running side by side) have the same id, and the id a create returns
\* is the id of exactly one stored event, its own.
C1_UniqueIds ==
    /\ \A i, j \in 1..Len(events) : i # j => events[i].id # events[j].id
    /\ \A p, q \in Procs : p # q /\ Created(p) /\ Created(q)
                            => loc[p].event.id # loc[q].event.id
    /\ \A p \in Procs : IsDone(p, "create") /\ resp[p].status = 200
                         => /\ Cardinality(Positions(resp[p].event.id)) = 1
                            /\ \A e \in returned : e.id # resp[p].event.id

\* Two creates ran side by side and both have answered.
C1_Witness ==
    /\ \A p \in Procs : IsDone(p, "create") /\ resp[p].status = 200
    /\ Len(events) = Cardinality(Procs)

\* The statistics of a store content s, counted over s directly.
TypesIn(s) == { s[i].event_type : i \in 1..Len(s) }
CountOfType(s, k) == Cardinality({ i \in 1..Len(s) : s[i].event_type = k })
IsStatsOf(st, s) ==
    /\ st.total_events = Len(s)
    /\ DOMAIN st.events_by_type = TypesIn(s)
    /\ \A k \in TypesIn(s) : st.events_by_type[k] = CountOfType(s, k)
    /\ st.recent_events = Truncate(SortByTimestampDesc(s), RecentLimit)

\* C2: what list() returns, and what stats() aggregates, is one content the
\* store had at some moment between the start and the end of the call.
C2_SnapshotAtOneInstant ==
    \A p \in Procs :
        /\ IsDone(p, "list") => resp[p].list \in hist[p].seen
        /\ IsDone(p, "stats") => \E s \in hist[p].seen : IsStatsOf(resp[p].stats, s)

\* A stats call has answered and the store changed while it ran.
C2_Witness ==
    \E p \in Procs : /\ IsDone(p, "stats")
                     /\ Cardinality(hist[p].seen) >= 2
                     /\ resp[p].stats.total_events >= 1

\* The tasks between acquiring a guard and dropping it.
Writing == { p \in Procs : pc[p] \in {"c_push", "c_ret"} }
Reading == { p \in Procs : pc[p] \in {"l_clone", "g_find", "s_len", "s_count", "s_clone"} }

\* C3: the lock is held by at most one writer and then by no reader, or by
\* readers only; the tasks between acquiring and releasing are exactly the
\* holders, so at most one create is at its push.
C3_ReadersOrOneWriter ==
    /\ Cardinality(Writing) <= 1
    /\ Writing # {} => Reading = {}
    /\ writer = Writing
    /\ readers = Reading

\* Two readers hold the lock at the same time.
C3_Witness == Cardinality(Reading) >= 2 /\ readers = Reading

\* C4: a get for an id that a create had already returned to its client
\* answers 200 with the very event that create returned.
C4_GetReturnsCreated ==
    \A p \in Procs :
        IsDone(p, "get") =>
            \A e \in hist[p].known : resp[p].status = 200 /\ resp[p].event = e

\* A get found an event that is not the first of the store.
C4_Witness ==
    \E p \in Procs : /\ IsDone(p, "get")
                     /\ Len(events) >= 2
                     /\ events[2] \in hist[p].known

\* C5: a get for a well-formed id answers 200 or 404; 404 whenever no stored
\* event has the id, and with 200 an event of the store that has the id.
C5_UnknownIdNotFound ==
    \A p \in Procs :
        IsDone(p, "get") /\ req[p].path.well_formed =>
            /\ resp[p].status \in {200, 404}
            /\ Positions(req[p].path.uuid) = {} => resp[p].status = 404
            /\ resp[p].status = 200 =>
                   /\ resp[p].event.id = req[p].path.uuid
                   /\ \E i \in 1..Len(events) : events[i] = resp[p].event

\* A get answered 404 on a store that holds events.
C5_Witness ==
    \E p \in Procs : /\ IsDone(p, "get")
                     /\ req[p].path.well_formed
                     /\ resp[p].status = 404
                     /\ Len(events) >= 1


\* C6, as claimed: the length of the list a call returns is the number of
\* creates that have completed.
C6_ListLengthIsCompleted ==
    \A p \in Procs : IsDone(p, "list") => Len(resp[p].list) = completed

\* C6, amended: the length of the list a call returns is the size the store
\* had at one moment of the call; it is at least the number of creates that
\* had completed, and the length of every list that had been returned, when
\* the call started, and at most the number of events stored by now.
C6_ListLengthBounds ==
    \A p \in Procs :
        IsDone(p, "list") =>
            /\ hist[p].floor <= Len(resp[p].list)
            /\ Len(resp[p].list) <= Len(events)
            /\ \E s \in hist[p].seen : Len(resp[p].list) = Len(s)

\* A list, started after a create had completed, holds more events than
\* creates have completed.
C6_Witness ==
    \E p \in Procs : /\ IsDone(p, "list")
                     /\ hist[p].floor >= 1
                     /\ Len(resp[p].list) > completed

\* The calls of p and q saw one store content, the same.
SawOnly(p, q) ==
    /\ Cardinality(hist[p].seen) = 1
    /\ hist[p].seen = hist[q].seen

\* C7: a stats answer and a list answer computed from the same store content
\* agree: total_events is the length of the list.
C7_TotalIsListLength ==
    \A p, q \in Procs :
        IsDone(p, "stats") /\ IsDone(q, "list") /\ SawOnly(p, q)
            => resp[p].stats.total_events = Len(resp[q].list)

\* Both have answered on a store of two events.
C7_Witness ==
    \E p, q \in Procs : /\ IsDone(p, "stats") /\ IsDone(q, "list") /\ SawOnly(p, q)
                        /\ Len(resp[q].list) = 2

\* The sum of the values of a map.
RECURSIVE SumOver(_, _)
SumOver(m, keys) ==
    IF keys = {} THEN 0
    ELSE LET k == CHOOSE x \in keys : TRUE IN m[k] + SumOver(m, keys \ {k})

\* C8: events_by_type has one key for each event_type of the snapshot, with
\* the number of snapshot events of that type, and its values sum to the
\* total_events of the same answer.
C8_EventsByType ==
    \A p \in Procs :
        IsDone(p, "stats") =>
            LET st == resp[p].stats IN
            /\ \E s \in hist[p].seen :
                   /\ DOMAIN st.events_by_type = TypesIn(s)
                   /\ \A k \in TypesIn(s) : st.events_by_type[k] = CountOfType(s, k)
            /\ SumOver(st.events_by_type, DOMAIN st.events_by_type) = st.total_events

\* A stats call that ran next to a create counted two events of one type.
C8_Witness ==
    \E p \in Procs : /\ IsDone(p, "stats")
                     /\ Cardinality(hist[p].seen) >= 2
                     /\ \E k \in DOMAIN resp[p].stats.events_by_type :
                            resp[p].stats.events_by_type[k] = 2

Min(a, b) == IF a < b THEN a ELSE b

\* C9: recent_events has min(10, total_events) events, each with a
\* timestamp at least that of the next.
C9_RecentEvents ==
    \A p \in Procs :
        IsDone(p, "stats") =>
            LET st == resp[p].stats IN
            /\ Len(st.recent_events) = Min(RecentLimit, st.total_events)
            /\ \A i \in 1..(Len(st.recent_events) - 1) :
                   st.recent_events[i].timestamp >= st.recent_events[i + 1].timestamp

\* A stats answer over more than ten events, stored out of timestamp order.
C9_Witness ==
    \E p \in Procs : /\ IsDone(p, "stats")
                     /\ resp[p].stats.total_events > RecentLimit
                     /\ \E i \in 1..(Len(events) - 1) :
                            events[i].timestamp > events[i + 1].timestamp

\* The fields CreateEventRequest cannot do without.
Required == {"event_type", "properties"}
LacksRequiredInput(r) ==
    r.body.kind = "empty" \/ ~(Required \subseteq DOMAIN r.body.fields)

\* C10, as claimed: a create request that lacks required input is answered
\* 400 or 422 and stores nothing.
C10_RejectedWith400Or422 ==
    \A p \in Procs :
        req[p].op = "create" /\ LacksRequiredInput(req[p].create) =>
            /\ pc[p] = "done"
            /\ resp[p].status \in {400, 422}
            /\ loc[p].event = NoEvent

\* The status of a rejection: 415 without a JSON content type, else 400 for
\* a body that is no JSON (empty), else 422.
RejectionStatus(r) ==
    IF ~r.json_content_type THEN 415
    ELSE IF r.body.kind = "empty" THEN 400 ELSE 422

\* Such a request is answered at once with that status; its handler never
\* runs.
C10_Rejected ==
    \A p \in Procs :
        req[p].op = "create" /\ LacksRequiredInput(req[p].create) =>
            /\ pc[p] = "done"
            /\ resp[p].status = RejectionStatus(req[p].create)
            /\ loc[p].event = NoEvent

\* C10, amended: a create request that lacks required input is answered
\* 415, 400 or 422 as above, its handler does not run, and the step that
\* answers it leaves the store as it was.
C10_RejectedLeavesStore ==
    /\ []C10_Rejected
    /\ [][\A p \in Procs :
            req[p].op # "create" /\ req'[p].op = "create"
            /\ LacksRequiredInput(req'[p].create)
                => events' = events /\ uuids' = uuids]_vars

\* An empty JSON body was rejected on a store that holds an event.
C10_Witness ==
    \E p \in Procs : /\ IsDone(p, "create")
                     /\ req[p].create.json_content_type
                     /\ req[p].create.body.kind = "empty"
                     /\ resp[p].status = 400
                     /\ Len(events) >= 1


\* A JSON request whose body is an object with the fields named.
HasFields(r, names) ==
    r.json_content_type /\ r.body.kind = "object" /\ names \subseteq DOMAIN r.body.fields

\* C11, as claimed: of the requests sent as JSON, those with an event_type
\* are accepted, whatever else they omit, and those rejected are answered
\* 400 or 422.
C11_OnlyEventTypeRequired ==
    \A p \in Procs :
        req[p].op = "create" /\ req[p].create.json_content_type =>
            /\ HasFields(req[p].create, {"event_type"}) => Created(p)
            /\ ~Created(p) => resp[p].status \in {400, 422}

\* C11, amended: event_type and properties are both required and user_id is
\* not.  A JSON request is accepted exactly when its body has event_type and
\* properties, and its event then has no user_id if the body has none; every
\* other request is rejected, with the status of its rejection.
C11_TypeAndPropertiesRequired ==
    \A p \in Procs :
        req[p].op = "create" =>
            /\ Created(p) <=> HasFields(req[p].create, Required)
            /\ Created(p) /\ "user_id" \notin DOMAIN req[p].create.body.fields
                   => loc[p].event.user_id = None
            /\ ~Created(p) => /\ pc[p] = "done"
                              /\ resp[p].status = RejectionStatus(req[p].create)

\* A request without user_id was accepted, and its event is stored and
\* returned with no user.
C11_Witness ==
    \E p \in Procs : /\ IsDone(p, "create")
                     /\ req[p].create.body = NoUserBody
                     /\ resp[p].status = 200
                     /\ resp[p].event.user_id = None
                     /\ \E i \in 1..Len(events) : events[i] = resp[p].event


\* C12, as claimed: a GET /events/{id} that fails, for an unknown id or for
\* a malformed one, answers 404.
C12_EveryFailureIs404 ==
    \A p \in Procs : IsDone(p, "get") /\ resp[p].status # 200 => resp[p].status = 404

\* C12, amended: GET /events/{id} answers 400 exactly when the id is
\* malformed, and then without looking at the store; a well-formed id that
\* matches no stored event is answered 404; there is no other failure.
C12_MalformedIs400 ==
    \A p \in Procs :
        /\ req[p].op = "get" /\ ~req[p].path.well_formed
               => pc[p] = "done" /\ resp[p].status = 400
        /\ IsDone(p, "get") =>
               /\ resp[p].status \in {200, 400, 404}
               /\ resp[p].status = 400 <=> ~req[p].path.well_formed
               /\ req[p].path.well_formed /\ Positions(req[p].path.uuid) = {}
                      => resp[p].status = 404

\* One get was answered 400 and another 404, on a store that holds events.
C12_Witness ==
    \E p, q \in Procs : /\ IsDone(p, "get") /\ resp[p].status = 400
                        /\ IsDone(q, "get") /\ resp[q].status = 404
                        /\ Len(events) >= 1


IsPrefix(a, b) == Len(a) <= Len(b) /\ a = SubSeq(b, 1, Len(a))

\* C13: every step leaves the store content a prefix of what it becomes
\* (nothing is removed, changed or reordered), and every list a call has
\* returned is a prefix of the store, hence of every later list.
C13_StoreOnlyGrows ==
    /\ [][IsPrefix(events, events')]_vars
    /\ [](\A p \in Procs : IsDone(p, "list") => IsPrefix(resp[p].list, events))
    /\ [](\A p, q \in Procs :
            IsDone(p, "list") /\ IsDone(q, "list")
                => IsPrefix(resp[p].list, resp[q].list) \/ IsPrefix(resp[q].list, resp[p].list))

\* Two lists were returned, the first a proper, non-empty prefix of the
\* second.
C13_Witness ==
    \E p, q \in Procs : /\ IsDone(p, "list") /\ IsDone(q, "list")
                        /\ Len(resp[p].list) >= 1
                        /\ Len(resp[p].list) < Len(resp[q].list)

\* The fields of the event a request body asks for.
Supplied(e, f) ==
    /\ e.event_type = f.event_type
    /\ e.properties = f.properties
    /\ e.user_id = IF "user_id" \in DOMAIN f THEN Some(f.user_id) ELSE None

\* C14: the only steps that change the store are pushes, one for each
\* successful create, and a push appends the one event of its create behind
\* the events stored before, which stay as they are; the event returned is
\* that stored event, with the fields the request supplied.
C14_CreateAppendsOne ==
    /\ [][events' # events =>
            \E p \in Procs : /\ pc[p] = "c_push" /\ pc'[p] = "c_ret"
                             /\ events' = Append(events, loc[p].event)]_vars
    /\ [](Len(events) = uuids - Cardinality({p \in Procs : pc[p] \in {"c_lock", "c_push"}}))
    /\ [](\A p \in Procs :
            IsDone(p, "create") /\ resp[p].status = 200 =>
                /\ Cardinality({ i \in 1..Len(events) : events[i] = resp[p].event }) = 1
                /\ Supplied(resp[p].event, req[p].create.body.fields))

\* A create has returned its event, the second of the store, with the user
\* and the properties of its request.
C14_Witness ==
    \E p \in Procs : /\ IsDone(p, "create")
                     /\ req[p].create.body = FullBody
                     /\ resp[p].status = 200
                     /\ Len(events) = 2
                     /\ events[2] = resp[p].event


Ids(s) == [i \in 1..Len(s) |-> s[i].id]

\* C15: the events of the store are the events of the creates that have
\* pushed, each once, in the order in which those creates took the write
\* guard (at most the one create holding the guard has not pushed yet); so
\* of two creates running side by side, the one that took the guard first
\* is at the lower index, and neither is lost or stored twice.
C15_OrderedByAcquisition ==
    /\ IsPrefix(Ids(events), acquired)
    /\ Len(acquired) <= Len(events) + 1
    /\ \A p \in Procs : Created(p) /\ pc[p] \in {"c_ret", "done"}
                         => Cardinality({ i \in 1..Len(events) : events[i] = loc[p].event }) = 1
    /\ \A p, q \in Procs :
          /\ Created(p) /\ Created(q) /\ p # q
          /\ pc[p] \in {"c_ret", "done"} /\ pc[q] \in {"c_ret", "done"}
          => \E i, j \in 1..Len(acquired) :
                /\ acquired[i] = loc[p].event.id /\ acquired[j] = loc[q].event.id
                /\ \A k, l \in 1..Len(events) :
                      events[k] = loc[p].event /\ events[l] = loc[q].event
                          => (i < j <=> k < l)

\* Two creates overlapped and both answered; the one whose event was built
\* second took the guard first and is stored first.
C15_Witness ==
    \E p, q \in Procs : /\ IsDone(p, "create") /\ IsDone(q, "create")
                        /\ resp[p].status = 200 /\ resp[q].status = 200
                        /\ resp[p].event.id < resp[q].event.id
                        /\ acquired = <<resp[q].event.id, resp[p].event.id>>
                        /\ events = <<resp[q].event, resp[p].event>>


\* The place of event e in the sequence s (0 when it is not there).
IndexOf(s, e) == IF \E i \in 1..Len(s) : s[i] = e
                 THEN CHOOSE i \in 1..Len(s) : s[i] = e ELSE 0
Range(s) == { s[i] : i \in 1..Len(s) }
\* The store content a stats answer was computed from.
SnapshotsOf(p) == { s \in hist[p].seen : Len(s) = resp[p].stats.total_events }

\* C16: the recent_events of a stats answer are distinct events of its
\* snapshot, and no snapshot event left out has a timestamp greater than
\* that of an event put in.
C16_MostRecent ==
    \A p \in Procs :
        IsDone(p, "stats") =>
            LET recent == resp[p].stats.recent_events IN
            \E s \in SnapshotsOf(p) :
                /\ Range(recent) \subseteq Range(s)
                /\ Cardinality(Range(recent)) = Len(recent)
                /\ \A out \in Range(s) \ Range(recent) : \A in \in Range(recent) :
                       out.timestamp <= in.timestamp

\* A stats answer that left out an event older than one it put in, the
\* left-out event not being the first of the store.
C16_Witness ==
    \E p \in Procs :
        /\ IsDone(p, "stats")
        /\ resp[p].stats.total_events > RecentLimit
        /\ \E out \in Range(events) \ Range(resp[p].stats.recent_events) :
              /\ IndexOf(events, out) > 1
              /\ \E in \in Range(resp[p].stats.recent_events) :
                     out.timestamp < in.timestamp

\* C17: snapshot events with equal timestamps appear in recent_events in
\* the order of the store, and when one of them is left out, the ones put
\* in come before it in the store.
C17_TiesKeepStoreOrder ==
    \A p \in Procs :
        IsDone(p, "stats") =>
            LET recent == resp[p].stats.recent_events IN
            \E s \in SnapshotsOf(p) :
                /\ \A i, j \in 1..Len(recent) :
                       i < j /\ recent[i].timestamp = recent[j].timestamp
                           => IndexOf(s, recent[i]) < IndexOf(s, recent[j])
                /\ \A out \in Range(s) \ Range(recent) : \A in \in Range(recent) :
                       out.timestamp = in.timestamp
                           => IndexOf(s, in) < IndexOf(s, out)

\* A stats answer where events with the same timestamp are partly in and
\* partly out of recent_events.
C17_Witness ==
    \E p \in Procs :
        /\ IsDone(p, "stats")
        /\ resp[p].stats.total_events > RecentLimit
        /\ \E out \in Range(events) \ Range(resp[p].stats.recent_events) :
           \E i, j \in 1..Len(resp[p].stats.recent_events) :
              /\ i < j
              /\ resp[p].stats.recent_events[i].timestamp = out.timestamp
              /\ resp[p].stats.recent_events[j].timestamp = out.timestamp


\* C18, as claimed: of any two events of the store, the one at the lower
\* index has the timestamp that is less or equal.  (create_event reads the
\* clock at line 90, before it waits for the write guard at line 93, so a
\* create that read the clock later can push first.)
C18_StoreOrderedByTimestamp ==
    \A i, j \in 1..Len(events) : i < j => events[i].timestamp <= events[j].timestamp


Reads == {"list", "get", "stats", "health"}
\* Task p takes this step, as part of a read operation.
ReadStep(p) ==
    /\ pc'[p] # pc[p] \/ loc'[p] # loc[p]
    /\ req[p].op \in Reads \/ req'[p].op \in Reads

\* C19: no step of a list, get, stats or health call, from its request to
\* its answer, successful or not, changes the store content; and a task
\* that holds only a read guard is at no step that writes.
C19_ReadsLeaveStore ==
    /\ [][(\E p \in Procs : ReadStep(p)) => events' = events]_vars
    /\ [](\A p \in Procs : req[p].op \in Reads => p \notin writer)

\* On a store of two events in ascending timestamp order, a get was
\* answered 404 and a stats call was answered.
C19_Witness ==
    \E p, q \in Procs : /\ IsDone(p, "get") /\ resp[p].status = 404
                        /\ IsDone(q, "stats")
                        /\ Len(events) = 2
                        /\ events[1].timestamp < events[2].timestamp


Waiting(p) == pc[p] \in {"c_lock", "l_lock", "g_lock", "s_lock"}
Running(p) == pc[p] \notin {"idle", "done"}
Holding(p) == p \in writer \cup readers

\* C20: whenever a request is being handled, some handler can take a step
\* (no deadlock); a task holds a guard only between its one acquisition and
\* its answer, never while it waits and never after it has answered, 404
\* included; and under fair scheduling every request that has started is
\* answered, with its guard released.
C20_NoDeadlockAndProgress ==
    /\ []((\E p \in Procs : Running(p))
            => ENABLED (\E p \in Procs : Handler(p) \/ Acquire(p)))
    /\ [](\A p \in Procs : Holding(p) <=> Running(p) /\ ~Waiting(p))
    /\ \A p \in Procs : Running(p) ~> (pc[p] = "done" /\ ~Holding(p))

\* A create waits for the write guard while a get about to answer 404
\* holds a read guard.
C20_Witness ==
    \E p, q \in Procs : /\ pc[p] = "c_lock"
                        /\ pc[q] = "g_find" /\ q \in readers
                        /\ req[q].path.well_formed
                        /\ Find(events, req[q].path.uuid) = None

====
